---- MODULE Spec2Model ----
(***************************************************************************)
(* Model of the real-estate analysis bot: src/main.py (the revision with   *)
(* the analyze / compare buttons), src/untitled folder/main.py (the        *)
(* earlier single-analysis revision) and src/db_handler.py.                *)
(*                                                                         *)
(* Strings are sequences of one-character strings.  TLA+ string literals   *)
(* are ASCII only, so every Cyrillic letter of the source is written as    *)
(* one Latin stand-in, one to one:                                         *)
(*   р r  и i  с s  к k  п p  о o  т t  е e  н n  ц c  а a  л l            *)
(*   ш w  б b  з z  в v  О O  (upper case: the capital stand-in)           *)
(* and the Latin letters that occur in the source's own strings            *)
(* ("DeepSeek API") are written "lat:D", "lat:e", ... so that they stay    *)
(* different characters from the Cyrillic ones, as they are in Python.     *)
(***************************************************************************)
EXTENDS Integers, Sequences, FiniteSets, TLC

VARIABLES
    user_data,   \* main.py: context.user_data of each user (set of flags)
    cache,       \* TTLCache behind @cached: key -> entry
    now,         \* the cache's timer, in seconds
    conn,        \* Database.conn and the analyses table behind it
    turn,        \* per user: the text turn in progress or last finished
    turns,       \* number of text turns started so far
    probe        \* the latest direct call of a function under test

vars == <<user_data, cache, now, conn, turn, turns, probe>>

(***************************************************************************)
(* Strings                                                                 *)
(***************************************************************************)
Filler(n) == [i \in 1..n |-> "x"]

\* str.lower(), on the characters of the model's alphabet
LowerChar(c) ==
    CASE c = "R" -> "r" [] c = "I" -> "i" [] c = "S" -> "s" [] c = "K" -> "k"
      [] c = "P" -> "p" [] c = "O" -> "o" [] c = "T" -> "t" [] c = "E" -> "e"
      [] c = "N" -> "n" [] c = "C" -> "c" [] c = "A" -> "a" [] c = "L" -> "l"
      [] c = "lat:D" -> "lat:d" [] c = "lat:S" -> "lat:s"
      [] c = "lat:A" -> "lat:a" [] c = "lat:P" -> "lat:p"
      [] c = "lat:I" -> "lat:i"
      [] OTHER -> c

Lower(s) == [i \in 1..Len(s) |-> LowerChar(s[i])]

\* Python's `kw in s` for a non-empty kw
Contains(s, kw) ==
    \E i \in 1..(Len(s) - Len(kw) + 1) :
        \A j \in 1..Len(kw) : s[i + j - 1] = kw[j]

RiskKeyword == <<"r", "i", "s", "k">>
PotentialKeyword == <<"p", "o", "t", "e", "n", "c", "i", "a", "l">>

Min(a, b) == IF a < b THEN a ELSE b
Max(a, b) == IF a > b THEN a ELSE b

(***************************************************************************)
(* calculate_investment_grade                                              *)
(***************************************************************************)
\* mutant: the keywords are matched without lower()
GradeCaseSensitive(analysis) ==
    LET g0 == Len(analysis) \div 10
        g1 == IF Contains(analysis, RiskKeyword) THEN g0 - 20 ELSE g0
        g2 == IF Contains(analysis, PotentialKeyword) THEN g1 + 20 ELSE g1
    IN  Min(100, Max(0, g2))

\* mutant: the risk keyword raises the grade
GradeRiskAdds(analysis) ==
    LET g0 == Len(analysis) \div 10
        g1 == IF Contains(Lower(analysis), RiskKeyword) THEN g0 + 20 ELSE g0
        g2 == IF Contains(Lower(analysis), PotentialKeyword) THEN g1 + 20 ELSE g1
    IN  Min(100, Max(0, g2))

calculate_investment_grade(analysis) ==
    LET g0 == Len(analysis) \div 10
        g1 == IF Contains(Lower(analysis), RiskKeyword) THEN g0 - 20 ELSE g0
        g2 == IF Contains(Lower(analysis), PotentialKeyword) THEN g1 + 20 ELSE g1
    IN  Min(100, Max(0, g2))

(***************************************************************************)
(* float() and int() of a string, on the alphabet of the model: spaces,    *)
(* a sign, decimal digits and the point.  (Exponents, "inf", "nan" and     *)
(* digit-group underscores are not in the alphabet of the inputs.)         *)
(***************************************************************************)
Digits == {"0", "1", "2", "3", "4", "5", "6", "7", "8", "9"}

DigitVal(c) ==
    CASE c = "0" -> 0 [] c = "1" -> 1 [] c = "2" -> 2 [] c = "3" -> 3
      [] c = "4" -> 4 [] c = "5" -> 5 [] c = "6" -> 6 [] c = "7" -> 7
      [] c = "8" -> 8 [] c = "9" -> 9

RECURSIVE DigitsValue(_)
DigitsValue(s) ==
    IF s = <<>> THEN 0
    ELSE 10 * DigitsValue(SubSeq(s, 1, Len(s) - 1)) + DigitVal(s[Len(s)])

AllDigits(s) == \A i \in 1..Len(s) : s[i] \in Digits

RECURSIVE Strip(_)
Strip(s) ==
    IF s = <<>> THEN s
    ELSE IF s[1] = " " THEN Strip(Tail(s))
    ELSE IF s[Len(s)] = " " THEN Strip(SubSeq(s, 1, Len(s) - 1))
    ELSE s

Signed(s) == s # <<>> /\ s[1] \in {"-", "+"}
Unsigned(s) == IF Signed(s) THEN Tail(s) ELSE s
SignOf(s) == IF Signed(s) /\ s[1] = "-" THEN -1 ELSE 1

\* int(s) does not raise ValueError
IntLiteral(s) ==
    LET u == Unsigned(Strip(s)) IN Len(u) >= 1 /\ AllDigits(u)

IntValue(s) == SignOf(Strip(s)) * DigitsValue(Unsigned(Strip(s)))

DotsOf(u) == {i \in 1..Len(u) : u[i] = "."}

\* float(s) does not raise ValueError
FloatLiteral(s) ==
    LET u == Unsigned(Strip(s))
    IN  /\ Cardinality(DotsOf(u)) <= 1
        /\ \A i \in 1..Len(u) : u[i] \in Digits \cup {"."}
        /\ \E i \in 1..Len(u) : u[i] \in Digits

\* a decimal value mant / 10^exp, without trailing zeros of the fraction
RECURSIVE Normal(_, _)
Normal(mant, exp) ==
    IF exp > 0 /\ mant % 10 = 0 THEN Normal(mant \div 10, exp - 1)
    ELSE [mant |-> mant, exp |-> exp]

FloatValue(s) ==
    LET t == Strip(s)
        u == Unsigned(t)
        p == IF DotsOf(u) = {} THEN Len(u) + 1 ELSE CHOOSE i \in DotsOf(u) : TRUE
        whole == SubSeq(u, 1, p - 1)
        frac == SubSeq(u, p + 1, Len(u))
        n == Normal(DigitsValue(whole \o frac), Len(frac))
    IN  [mant |-> SignOf(t) * n.mant, exp |-> n.exp]

(***************************************************************************)
(* db_handler.py: the connection (autocommit off) and the analyses table.  *)
(* status is psycopg2's transaction status; pending holds the rows         *)
(* inserted by the open transaction; table holds the committed rows.       *)
(***************************************************************************)
InitConn == [status |-> "idle", pending |-> <<>>, table |-> <<>>]

DbFaults == {"none", "execute", "commit"}

Execute(c, row) == [c EXCEPT !.status = "intrans", !.pending = Append(@, row)]
ExecuteFailed(c) == [c EXCEPT !.status = "aborted"]
Commit(c) == [status |-> "idle", pending |-> <<>>, table |-> c.table \o c.pending]
Rollback(c) == [c EXCEPT !.status = "idle", !.pending = <<>>]

\* mutant: location and type bound to each other's column
SwappedRow(user_id, data, result) ==
    [user_id |-> user_id, location |-> data[4], area |-> FloatValue(data[2]),
     price |-> IntValue(data[3]), type |-> data[1], result |-> result]

AnalysisRow(user_id, data, result) ==
    [user_id |-> user_id, location |-> data[1], area |-> FloatValue(data[2]),
     price |-> IntValue(data[3]), type |-> data[4], result |-> result]

\* mutant: the except clause re-raises without rollback()
SaveWithoutRollback(c, user_id, data, result, fault) ==
    IF Len(data) # 4 \/ ~FloatLiteral(data[2]) \/ ~IntLiteral(data[3])
    THEN [conn |-> c, raised |-> "ValueError"]
    ELSE IF fault = "execute"
    THEN [conn |-> ExecuteFailed(c), raised |-> "DatabaseError"]
    ELSE IF fault = "commit"
    THEN [conn |-> Execute(c, AnalysisRow(user_id, data, result)),
          raised |-> "DatabaseError"]
    ELSE [conn |-> Commit(Execute(c, AnalysisRow(user_id, data, result))),
          raised |-> "none"]

\* mutant: the except clause rolls back but does not re-raise
SaveSwallowsError(c, user_id, data, result, fault) ==
    IF Len(data) # 4 \/ ~FloatLiteral(data[2]) \/ ~IntLiteral(data[3])
    THEN [conn |-> Rollback(c), raised |-> "none"]
    ELSE IF fault = "execute"
    THEN [conn |-> Rollback(ExecuteFailed(c)), raised |-> "none"]
    ELSE IF fault = "commit"
    THEN [conn |-> Rollback(Execute(c, AnalysisRow(user_id, data, result))),
          raised |-> "none"]
    ELSE [conn |-> Commit(Execute(c, AnalysisRow(user_id, data, result))),
          raised |-> "none"]

\* Database.save_analysis: the connection afterwards and the exception raised
save_analysis(c, user_id, data, result, fault) ==
    IF Len(data) # 4 \/ ~FloatLiteral(data[2]) \/ ~IntLiteral(data[3])
    THEN [conn |-> Rollback(c), raised |-> "ValueError"]
    ELSE IF fault = "execute"
    THEN [conn |-> Rollback(ExecuteFailed(c)), raised |-> "DatabaseError"]
    ELSE IF fault = "commit"
    THEN [conn |-> Rollback(Execute(c, AnalysisRow(user_id, data, result))),
          raised |-> "DatabaseError"]
    ELSE [conn |-> Commit(Execute(c, AnalysisRow(user_id, data, result))),
          raised |-> "none"]

(***************************************************************************)
(* str.split(sep) and sep.join(fields)                                     *)
(***************************************************************************)
RECURSIVE SplitFrom(_, _, _, _, _)
SplitFrom(s, sep, i, cur, acc) ==
    IF i > Len(s) THEN Append(acc, cur)
    ELSE IF s[i] = sep THEN SplitFrom(s, sep, i + 1, <<>>, Append(acc, cur))
    ELSE SplitFrom(s, sep, i + 1, Append(cur, s[i]), acc)

Split(s, sep) == SplitFrom(s, sep, 1, <<>>, <<>>)

RECURSIVE Join(_, _)
Join(fields, sep) ==
    IF fields = <<>> THEN <<>>
    ELSE IF Len(fields) = 1 THEN fields[1]
    ELSE fields[1] \o <<sep>> \o Join(Tail(fields), sep)

\* indexing a str yields one-character strings
StrItems(s) == [i \in 1..Len(s) |-> <<s[i]>>]

(***************************************************************************)
(* cachetools: TTLCache(maxsize=100, ttl=300) and the @cached wrapper.     *)
(* The cache is the list of its links, oldest first.  The value stored for *)
(* an async function is the coroutine object the call created.  The call   *)
(* that created it awaits it at once and the body has no suspension point  *)
(* (requests.post blocks), so every stored coroutine has already run;      *)
(* value is what it returned.                                              *)
(***************************************************************************)
maxsize == 100
ttl == 300

ListArg(data) == [kind |-> "list", items |-> data]
TupleArg(data) == [kind |-> "tuple", items |-> data]

\* hash() of the key hashkey(data) succeeds
Hashable(arg) == arg.kind = "tuple"

Live(c, t) == SelectSeq(c, LAMBDA e : t < e.expires)
Without(c, key) == SelectSeq(c, LAMBDA e : e.key # key)
HasKey(c, key) == \E i \in 1..Len(c) : c[i].key = key
Entry(c, key) == c[CHOOSE i \in 1..Len(c) : c[i].key = key]

\* TTLCache.__getitem__ finds an entry that has not expired
CacheHit(c, t, key) == HasKey(c, key) /\ t < Entry(c, key).expires

\* TTLCache.__setitem__: expire, make room, link the entry last
CacheSet(c, t, key, value) ==
    LET live == Without(Live(c, t), key)
        room == IF Len(live) >= maxsize THEN Tail(live) ELSE live
    IN  Append(room, [key |-> key, expires |-> t + ttl, value |-> value])

FallbackRequest ==
    <<"O", "w", "i", "b", "k", "a", " ", "p", "r", "i", " ",
      "z", "a", "p", "r", "o", "s", "e", " ", "k", " ",
      "lat:D", "lat:e", "lat:e", "lat:p", "lat:S", "lat:e", "lat:e", "lat:k",
      " ", "lat:A", "lat:P", "lat:I">>

FallbackNoText ==
    <<"O", "w", "i", "b", "k", "a", " ", "v", " ",
      "a", "n", "a", "l", "i", "z", "e">>

\* the body of deepseek_analysis, given what requests.post meets
deepseek_body(remote) ==
    IF remote.kind = "network_error"
    THEN [raised |-> "ConnectionError", result |-> <<>>]
    ELSE IF remote.status = 200
    THEN IF remote.body = "not_json"
         THEN [raised |-> "JSONDecodeError", result |-> <<>>]
         ELSE IF remote.body = "json_no_text"
         THEN [raised |-> "none", result |-> FallbackNoText]
         ELSE [raised |-> "none", result |-> remote.text]
    ELSE [raised |-> "none", result |-> FallbackRequest]

NoCall(c) ==
    [cache |-> c, raised |-> "none", result |-> <<>>, requested |-> 0,
     hit |-> FALSE, cached_value |-> <<>>]

\* `await deepseek_analysis(arg)`: the wrapper's lookup, then the await of
\* the coroutine object it returned (a cached one cannot be awaited again)
deepseek_analysis(c, t, arg, remote) ==
    IF ~Hashable(arg)
    THEN [NoCall(c) EXCEPT !.raised = "TypeError"]
    ELSE IF CacheHit(c, t, arg.items)
    THEN [NoCall(c) EXCEPT !.raised = "RuntimeError", !.hit = TRUE,
                           !.cached_value = Entry(c, arg.items).value]
    ELSE LET b == deepseek_body(remote)
         IN  [cache |-> CacheSet(c, t, arg.items, b.result),
              raised |-> b.raised, result |-> b.result, requested |-> 1,
              hit |-> FALSE, cached_value |-> <<>>]

(***************************************************************************)
(* generate_pdf_report: the items drawn into the buffer                    *)
(***************************************************************************)
generate_pdf_report(analyses, grades) ==
    [i \in 1..Len(analyses) |->
        [text |-> SubSeq(analyses[i], 1, Min(400, Len(analyses[i]))),
         grade |-> grades[i]]]

(***************************************************************************)
(* Bounds and inputs                                                       *)
(***************************************************************************)
MaxTurns == 2
MaxTime == 400
MaxRows == 2
MaxPadHundreds == 13

Users == {1, 2}

\* the timer is observed every two thirds of the ttl
TickStep == 2 * (ttl \div 3)

Bar == <<"|">>
NL == <<"\n">>

ValidOne == <<"M">> \o Bar \o <<"5", "0">> \o Bar \o <<"9">> \o Bar \o <<"A">>
ValidTwo == <<"K">> \o Bar \o <<"7", ".", "5">> \o Bar \o <<"1", "2">> \o Bar \o <<"H">>
BadArea == <<"M">> \o Bar \o <<"f">> \o Bar \o <<"9">> \o Bar \o <<"A">>
BadPrice == <<"M">> \o Bar \o <<"5", "0">> \o Bar \o <<"9", ".", "5">> \o Bar \o <<"A">>
ThreeFields == <<"M">> \o Bar \o <<"5", "0">> \o Bar \o <<"9">>

Texts ==
    {ValidOne, BadArea, BadPrice, ThreeFields,
     ValidOne \o NL \o ValidTwo, ValidOne \o NL \o ValidOne,
     ValidOne \o NL \o ThreeFields, ValidOne \o NL \o BadArea}

\* the earlier revision joins the fields back: a text of four characters
LegacyTexts == {ValidOne, ThreeFields, <<"|", "5", "|", "|">>}

Narratives ==
    {<<"x", "x", "x", "x", "x", "x", "x", "x", "p", "o", "t", "e", "n", "c", "i", "a", "l">>}

Remotes ==
    {[kind |-> "response", status |-> 200, body |-> "json", text |-> n] :
        n \in Narratives}
    \cup {[kind |-> "response", status |-> 200, body |-> "json_no_text", text |-> <<>>],
          [kind |-> "response", status |-> 200, body |-> "not_json", text |-> <<>>],
          [kind |-> "response", status |-> 500, body |-> "not_json", text |-> <<>>],
          [kind |-> "network_error", status |-> 0, body |-> "not_json", text |-> <<>>]}

(***************************************************************************)
(* The text turn of a user.  pending: the replies the handler has still to *)
(* await; replies: those delivered.  left: the user's flags when the       *)
(* handler's own code is through with them.                                *)
(***************************************************************************)
NoRemote == [kind |-> "none", status |-> 0, body |-> "not_json", text |-> <<>>]

NoTurn ==
    [phase |-> "none", mode |-> "none", started |-> {}, left |-> {},
     text |-> <<>>, calls |-> 0, requests |-> 0, remote |-> NoRemote,
     hit |-> FALSE, cached_value |-> <<>>,
     analyses |-> <<>>, grades |-> <<>>, saves |-> 0, saved |-> 0,
     save_raised |-> "none", pdfs |-> <<>>, raised |-> "none",
     pending |-> <<>>, replies |-> <<>>]

Text(kind) == [kind |-> kind, items |-> 0]
Document(pdf) == [kind |-> "document", items |-> Len(pdf)]

Begin(flags, left, mode, text) ==
    [NoTurn EXCEPT !.phase = "sending", !.mode = mode, !.started = flags,
                   !.left = left, !.text = text]

\* the handler returns after awaiting these replies
Reply(t, msgs) ==
    [t EXCEPT !.pending = msgs,
              !.phase = IF msgs = <<>> THEN "done" ELSE "sending"]

\* except Exception: log, reply with the generic message
Caught(t, exc) == Reply([t EXCEPT !.raised = exc], <<Text("generic_error")>>)

\* one call of deepseek_analysis made by the turn
Called(t, r, remote) ==
    [t EXCEPT !.calls = @ + 1, !.requests = @ + r.requested,
              !.remote = IF r.requested = 1 THEN remote ELSE @,
              !.hit = r.hit, !.cached_value = r.cached_value]

(***************************************************************************)
(* src/main.py: button_click and handle_message                            *)
(***************************************************************************)
button_click(flags, data) ==
    IF data = "analyze" THEN flags \cup {"awaiting_analysis"}
    ELSE IF data = "compare" THEN flags \cup {"awaiting_comparison"}
    ELSE flags

\* the loop over the lines of a comparison; st is [turn, cache, stop]
RECURSIVE compare_lines(_, _, _, _, _)
compare_lines(lines, i, st, t, remotes) ==
    IF i > Len(lines) THEN st
    ELSE LET data == Split(lines[i], "|")
         IN  IF Len(data) # 4 THEN [st EXCEPT !.stop = "bad_line"]
             ELSE LET r == deepseek_analysis(st.cache, t, ListArg(data), remotes[i])
                      tr == Called(st.turn, r, remotes[i])
                  IN  IF r.raised # "none"
                      THEN [st EXCEPT !.turn = [tr EXCEPT !.raised = r.raised],
                                      !.cache = r.cache, !.stop = "raised"]
                      ELSE compare_lines(lines, i + 1,
                               [st EXCEPT
                                  !.turn = [tr EXCEPT
                                      !.analyses = Append(@, r.result),
                                      !.grades = Append(@,
                                          calculate_investment_grade(r.result))],
                                  !.cache = r.cache],
                               t, remotes)

\* the single-analysis branch after the field count check (lines 71-80)
analyze_one(tr, data, c, t, db, user_id, remote, fault) ==
    LET r == deepseek_analysis(c, t, ListArg(data), remote)
        tr1 == Called(tr, r, remote)
    IN  IF r.raised # "none"
        THEN [turn |-> Caught(tr1, r.raised), cache |-> r.cache, conn |-> db]
        ELSE LET grade == calculate_investment_grade(r.result)
                 sv == save_analysis(db, user_id, data, r.result, fault)
                 tr2 == [tr1 EXCEPT !.analyses = <<r.result>>,
                                    !.grades = <<grade>>,
                                    !.saves = 1,
                                    !.save_raised = sv.raised,
                                    !.saved = Len(sv.conn.table) - Len(db.table)]
                 pdf == generate_pdf_report(<<r.result>>, <<grade>>)
             IN  IF sv.raised # "none"
                 THEN [turn |-> Caught(tr2, sv.raised), cache |-> r.cache,
                       conn |-> sv.conn]
                 ELSE [turn |-> Reply([tr2 EXCEPT !.pdfs = <<pdf>>],
                                      <<[kind |-> "analysis_report", items |-> 1],
                                        Document(pdf)>>),
                       cache |-> r.cache, conn |-> sv.conn]

\* handle_message up to its first awaited reply: the turn record, the cache
\* and the connection it leaves, and the user's flags
handle_message(flags, text, c, t, db, user_id, remotes, fault) ==
    LET lines == Split(text, "\n")
    IN  IF "awaiting_analysis" \in flags
        THEN LET left == flags \ {"awaiting_analysis"}
                 tr == Begin(flags, left, "analysis", text)
                 data == Split(lines[1], "|")
                 out == IF Len(lines) # 1
                        THEN [turn |-> Reply(tr, <<Text("one_object_error")>>),
                              cache |-> c, conn |-> db]
                        ELSE IF Len(data) # 4
                        THEN [turn |-> Reply(tr, <<Text("format_error")>>),
                              cache |-> c, conn |-> db]
                        ELSE analyze_one(tr, data, c, t, db, user_id,
                                         remotes[1], fault)
             IN  [user_data |-> left, turn |-> out.turn, cache |-> out.cache,
                  conn |-> out.conn]
        ELSE IF "awaiting_comparison" \in flags
        THEN LET left == flags \ {"awaiting_comparison"}
                 tr == Begin(flags, left, "comparison", text)
                 st == compare_lines(lines, 1,
                           [turn |-> tr, cache |-> c, stop |-> "none"],
                           t, remotes)
                 pdf == generate_pdf_report(st.turn.analyses, st.turn.grades)
                 done == IF Len(lines) < 2
                         THEN Reply(tr, <<Text("min_two_error")>>)
                         ELSE IF st.stop = "bad_line"
                         THEN Reply(st.turn, <<Text("line_error")>>)
                         ELSE IF st.stop = "raised"
                         THEN Caught(st.turn, st.turn.raised)
                         ELSE Reply([st.turn EXCEPT !.pdfs = <<pdf>>],
                                    <<[kind |-> "comparison_report",
                                       items |-> Len(st.turn.analyses)],
                                      Document(pdf)>>)
             IN  [user_data |-> left, turn |-> done,
                  cache |-> IF Len(lines) < 2 THEN c ELSE st.cache, conn |-> db]
        ELSE [user_data |-> flags, turn |-> Reply(Begin(flags, flags, "none", text), <<>>),
              cache |-> c, conn |-> db]

(***************************************************************************)
(* src/untitled folder/main.py: generate_pdf_report and handle_message     *)
(***************************************************************************)
generate_pdf_report_untitled(analysis_result, investment_grade) ==
    <<[text |-> analysis_result, grade |-> investment_grade]>>

handle_message_untitled(text, c, t, db, user_id, remote, fault) ==
    LET data == Split(text, "|")
        tr == Begin({}, {}, "analysis", text)
    IN  IF Len(data) # 4
        THEN [turn |-> Reply(tr, <<Text("format_error")>>), cache |-> c, conn |-> db]
        ELSE LET r == deepseek_analysis(c, t, TupleArg(data), remote)
                 tr1 == Called(tr, r, remote)
             IN  IF r.raised # "none"
                 THEN [turn |-> Caught(tr1, r.raised), cache |-> r.cache, conn |-> db]
                 ELSE LET grade == calculate_investment_grade(r.result)
                          sv == save_analysis(db, user_id,
                                    StrItems(Join(data, "|")), r.result, fault)
                          tr2 == [tr1 EXCEPT
                                     !.analyses = <<r.result>>,
                                     !.grades = <<grade>>,
                                     !.saves = 1,
                                     !.save_raised = sv.raised,
                                     !.saved = Len(sv.conn.table) - Len(db.table)]
                          pdf == generate_pdf_report_untitled(r.result, grade)
                      IN  IF sv.raised # "none"
                          THEN [turn |-> Caught(tr2, sv.raised), cache |-> r.cache,
                                conn |-> sv.conn]
                          ELSE [turn |-> Reply([tr2 EXCEPT !.pdfs = <<pdf>>],
                                          <<[kind |-> "analysis_report", items |-> 1],
                                            Document(pdf)>>),
                                cache |-> r.cache, conn |-> sv.conn]

(***************************************************************************)
(* Actions                                                                 *)
(***************************************************************************)
NoProbe == [kind |-> "none"]

InitBot ==
    /\ user_data = [u \in Users |-> {}]
    /\ cache = <<>>
    /\ now = 0
    /\ conn = InitConn
    /\ turn = [u \in Users |-> NoTurn]
    /\ turns = 0

Init == InitBot /\ probe = NoProbe

Idle(u) == turn[u].phase # "sending"

\* main.py: a click on one of the two buttons
ButtonClick(u, data) ==
    /\ Idle(u)
    /\ user_data' = [user_data EXCEPT ![u] = button_click(@, data)]
    /\ UNCHANGED <<cache, now, conn, turn, turns, probe>>

\* main.py: a text message, up to the first awaited reply
HandleMessage(u, text, remotes, fault) ==
    /\ Idle(u)
    /\ turns < MaxTurns
    /\ \E h \in {handle_message(user_data[u], text, cache, now, conn, u,
                                 remotes, fault)} :
           /\ user_data' = [user_data EXCEPT ![u] = h.user_data]
           /\ turn' = [turn EXCEPT ![u] = h.turn]
           /\ cache' = h.cache
           /\ conn' = h.conn
    /\ turns' = turns + 1
    /\ UNCHANGED <<now, probe>>

\* an awaited reply_text / reply_document completes
Deliver(u) ==
    /\ turn[u].phase = "sending"
    /\ turn' = [turn EXCEPT ![u] =
                  [@ EXCEPT !.replies = Append(@, Head(turn[u].pending)),
                            !.pending = Tail(@),
                            !.phase = IF Len(turn[u].pending) = 1
                                      THEN "done" ELSE "sending"]]
    /\ UNCHANGED <<user_data, cache, now, conn, turns, probe>>

Next ==
    \E u \in Users :
        \/ \E data \in {"analyze", "compare"} : ButtonClick(u, data)
        \/ \E text \in Texts, remotes \in [1..2 -> Remotes], fault \in DbFaults :
               HandleMessage(u, text, remotes, fault)
        \/ Deliver(u)

Spec == Init /\ [][Next]_vars

\* untitled folder/main.py: a text message, up to the first awaited reply
HandleMessageUntitled(u, text, remote, fault) ==
    /\ Idle(u)
    /\ turns < MaxTurns
    /\ \E h \in {handle_message_untitled(text, cache, now, conn, u,
                                          remote, fault)} :
           /\ turn' = [turn EXCEPT ![u] = h.turn]
           /\ cache' = h.cache
           /\ conn' = h.conn
    /\ turns' = turns + 1
    /\ UNCHANGED <<user_data, now, probe>>

\* the cache's timer advances
Tick ==
    /\ now + TickStep <= MaxTime
    /\ now' = now + TickStep
    /\ UNCHANGED <<user_data, cache, conn, turn, turns, probe>>

NextUntitled ==
    \/ \E u \in Users, text \in LegacyTexts, remote \in Remotes, fault \in DbFaults :
           HandleMessageUntitled(u, text, remote, fault)
    \/ \E u \in Users : Deliver(u)
    \/ Tick

SpecUntitled == Init /\ [][NextUntitled]_vars

(***************************************************************************)
(* Direct calls of Database.save_analysis                                  *)
(***************************************************************************)
SaveInputs ==
    {Split(ValidOne, "|"), Split(ValidTwo, "|"), Split(BadArea, "|"),
     Split(BadPrice, "|"), Split(ThreeFields, "|"),
     Split(ValidOne \o Bar \o <<"Z">>, "|"),
     StrItems(<<"|", "5", "|", "|">>),
     << <<"M">>, <<" ", "5", ".">>, <<"-", "3">>, <<"A">> >>}

SaveCall(user_id, data, result, fault) ==
    /\ Len(conn.table) < MaxRows
    /\ \E sv \in {save_analysis(conn, user_id, data, result, fault)} :
           /\ conn' = sv.conn
           /\ probe' = [kind |-> "save", user_id |-> user_id, data |-> data,
                        result |-> result, fault |-> fault, before |-> conn,
                        raised |-> sv.raised]
    /\ UNCHANGED <<user_data, cache, now, turn, turns>>

NextStore ==
    \E user_id \in Users, data \in SaveInputs, result \in Narratives,
       fault \in DbFaults : SaveCall(user_id, data, result, fault)

SpecStore == Init /\ [][NextStore]_vars

(***************************************************************************)
(* Direct calls of calculate_investment_grade                              *)
(***************************************************************************)
PadLens == {0, 9, 191} \cup {100 * k + r : k \in 0..MaxPadHundreds, r \in {0, 96}}

GradeInputs ==
    {Filler(a) \o w1 \o Filler(b) \o w2 :
        a \in PadLens,
        w1 \in {<<>>, RiskKeyword, <<"R", "i", "S", "k">>, PotentialKeyword},
        b \in {0, 6},
        w2 \in {<<>>, <<"R", "I", "S", "K">>, <<"r", "i", "s">>,
                <<"P", "O", "T", "E", "N", "C", "I", "A", "L">>}}

InitGrade ==
    /\ InitBot
    /\ \E n \in GradeInputs :
           probe = [kind |-> "narrative", narrative |-> n, grade |-> 0,
                    before |-> <<>>, before_grade |-> 0]

Estimate ==
    /\ probe.kind = "narrative"
    /\ probe' = [probe EXCEPT !.kind = "graded",
                    !.grade = calculate_investment_grade(probe.narrative)]
    /\ UNCHANGED <<user_data, cache, now, conn, turn, turns>>

\* one more occurrence of the risk keyword at the end, graded again
AppendRisk(word) ==
    /\ probe.kind = "graded"
    /\ ~Contains(Lower(probe.narrative), RiskKeyword)
    /\ probe' = [kind |-> "appended", narrative |-> probe.narrative \o word,
                 grade |-> calculate_investment_grade(probe.narrative \o word),
                 before |-> probe.narrative, before_grade |-> probe.grade]
    /\ UNCHANGED <<user_data, cache, now, conn, turn, turns>>

NextGrade ==
    \/ Estimate
    \/ \E word \in {RiskKeyword, <<"R", "I", "S", "K">>} : AppendRisk(word)

SpecGrade == InitGrade /\ [][NextGrade]_vars

(***************************************************************************)
(* Claims                                                                  *)
(***************************************************************************)
Clamp(x) == IF x < 0 THEN 0 ELSE IF x > 100 THEN 100 ELSE x

\* kw occurs in s, whatever the case of the letters of s
HasWord(s, kw) ==
    \E i \in 1..Len(s) :
        /\ i + Len(kw) - 1 <= Len(s)
        /\ \A j \in 1..Len(kw) : LowerChar(s[i + j - 1]) = kw[j]

Bonus(s, kw) == IF HasWord(s, kw) THEN 20 ELSE 0

\* C6: the grade of every narrative is within [0,100] and equals
\* clamp(floor(length/10) - 20*[risk] + 20*[potential], 0, 100), the keywords
\* matched case-insensitively; a 200-character narrative with the potential
\* keyword and without the risk keyword scores 40.
C6_GradeFormula ==
    probe.kind \in {"graded", "appended"} =>
        LET s == probe.narrative
        IN  /\ probe.grade \in 0..100
            /\ probe.grade = Clamp((Len(s) \div 10) - Bonus(s, RiskKeyword)
                                   + Bonus(s, PotentialKeyword))
            /\ (Len(s) = 200 /\ HasWord(s, PotentialKeyword)
                    /\ ~HasWord(s, RiskKeyword) => probe.grade = 40)

C6_Witness ==
    /\ probe.kind = "graded"
    /\ Len(probe.narrative) = 200
    /\ HasWord(probe.narrative, PotentialKeyword)
    /\ ~HasWord(probe.narrative, RiskKeyword)
    /\ probe.grade = 40

\* C7 as stated: appending the risk keyword to a narrative without it gives
\* a strictly lower grade, or both grades are 0.
C7_StrictlyLowerOrZero ==
    probe.kind = "appended" =>
        \/ probe.grade < probe.before_grade
        \/ (probe.grade = 0 /\ probe.before_grade = 0)

\* C7 amended: appending the risk keyword to a narrative without it gives a
\* strictly lower grade, or both grades are 0, or both grades are 100.
C7_LowerOrClamped ==
    probe.kind = "appended" =>
        \/ probe.grade < probe.before_grade
        \/ (probe.grade = 0 /\ probe.before_grade = 0)
        \/ (probe.grade = 100 /\ probe.before_grade = 100)

C7_Witness ==
    /\ probe.kind = "appended"
    /\ ~HasWord(probe.before, RiskKeyword)
    /\ HasWord(probe.narrative, RiskKeyword)
    /\ 0 < probe.grade
    /\ probe.grade < probe.before_grade

\* C4: a call of save_analysis that returns normally has added exactly one
\* row holding the user id, the four listing fields (area and price
\* converted) and the narrative; a call that fails has added no row, has
\* left no transaction open and raises to its caller; and it fails exactly
\* on a conversion error or a database error.
C4_SaveContract ==
    probe.kind = "save" =>
        LET d == probe.data
            bad == Len(d) # 4 \/ ~FloatLiteral(d[2]) \/ ~IntLiteral(d[3])
        IN  /\ (probe.raised # "none") <=> (bad \/ probe.fault # "none")
            /\ probe.raised = "none" =>
                   /\ conn.table = Append(probe.before.table,
                          [user_id |-> probe.user_id, location |-> d[1],
                           area |-> FloatValue(d[2]), price |-> IntValue(d[3]),
                           type |-> d[4], result |-> probe.result])
                   /\ conn.status = "idle" /\ conn.pending = <<>>
                   /\ (d[2] = <<" ", "5", ".">> =>
                           conn.table[Len(conn.table)].area = [mant |-> 5, exp |-> 0])
                   /\ (d[2] = <<"7", ".", "5">> =>
                           conn.table[Len(conn.table)].area = [mant |-> 75, exp |-> 1])
                   /\ (d[3] = <<"-", "3">> => conn.table[Len(conn.table)].price = -3)
            /\ probe.raised # "none" =>
                   /\ conn.table = probe.before.table
                   /\ conn.status = "idle" /\ conn.pending = <<>>

C4_Witness ==
    /\ probe.kind = "save"
    /\ probe.raised = "DatabaseError"
    /\ probe.fault = "execute"
    /\ Len(conn.table) >= 1
    /\ conn.table = probe.before.table

\* C10: between any two calls of save_analysis, whoever makes them, the
\* shared connection has no open transaction: every insert that was started
\* has been committed or rolled back.
C10_NoOpenTransaction == conn.status = "idle" /\ conn.pending = <<>>

C10_Witness ==
    /\ probe.kind = "save"
    /\ probe.fault = "commit"
    /\ probe.raised = "DatabaseError"
    /\ Len(conn.table) >= 1
    /\ conn.table[Len(conn.table)].user_id # probe.user_id

Messages(t) == t.replies \o t.pending

\* C5: a turn in which save_analysis fails renders no PDF and sends exactly
\* one message, the generic failure message; and a turn that sends the
\* report (text or document) obtained the analysis and persisted its row
\* before the first reply.
C5_SaveFailureAborts ==
    \A u \in Users :
        LET t == turn[u]
        IN  /\ (t.saves > 0 /\ t.save_raised # "none") =>
                   /\ t.pdfs = <<>>
                   /\ Messages(t) = <<Text("generic_error")>>
            /\ (\E i \in 1..Len(Messages(t)) :
                    Messages(t)[i].kind \in {"analysis_report", "document"}) =>
                   /\ Len(t.analyses) = 1
                   /\ t.saves = 1 /\ t.save_raised = "none" /\ t.saved = 1

C5_Witness ==
    \E u \in Users :
        /\ turn[u].phase = "done"
        /\ turn[u].saves = 1
        /\ turn[u].save_raised = "ValueError"
        /\ turn[u].pdfs = <<>>
        /\ turn[u].replies = <<Text("generic_error")>>

InvalidListing(line) ==
    LET d == Split(line, "|")
    IN  Len(d) # 4 \/ ~FloatLiteral(d[2]) \/ ~IntLiteral(d[3])

InvalidInput(t) ==
    LET lines == Split(t.text, "\n")
    IN  IF t.mode = "analysis"
        THEN Len(lines) # 1 \/ InvalidListing(lines[1])
        ELSE \E i \in 1..Len(lines) : InvalidListing(lines[i])

\* C1: a turn whose input is not a valid listing (in comparison mode: one of
\* whose lines is not) makes no call of deepseek_analysis, no request to the
\* remote endpoint and no call of save_analysis.
C1_NoCallOnInvalidInput ==
    \A u \in Users :
        (turn[u].mode # "none" /\ InvalidInput(turn[u])) =>
            /\ turn[u].calls = 0
            /\ turn[u].requests = 0
            /\ turn[u].saves = 0

\* C2: a call of deepseek_analysis that finds the identical listing cached
\* within the window, by a first call that returned a narrative, returns
\* that narrative and issues no request.
C2_CachedCallReturnsNarrative ==
    \A u \in Users :
        (turn[u].hit /\ turn[u].cached_value # <<>>) =>
            /\ turn[u].raised = "none"
            /\ turn[u].analyses = <<turn[u].cached_value>>
            /\ turn[u].requests = 0

RemoteFailed(t) ==
    /\ t.requests = 1
    /\ \/ t.remote.kind = "network_error"
       \/ t.remote.status # 200
       \/ t.remote.body # "json"

\* C3: when the remote call made for a valid listing fails, deepseek_analysis
\* returns a fallback string and the turn completes: the grade of the fallback is computed, one
\* row is persisted, the text reply and the document are sent.
C3_FallbackAndCompletion ==
    \A u \in Users :
        (turn[u].phase = "done" /\ ~InvalidInput(turn[u])
            /\ RemoteFailed(turn[u])) =>
            /\ turn[u].raised = "none"
            /\ Len(turn[u].analyses) = 1
            /\ turn[u].analyses[1] \in {FallbackRequest, FallbackNoText}
            /\ turn[u].grades = <<Len(turn[u].analyses[1]) \div 10>>
            /\ turn[u].saved = 1
            /\ turn[u].replies = <<[kind |-> "analysis_report", items |-> 1],
                                   [kind |-> "document", items |-> 1]>>

AllValid(t) ==
    LET lines == Split(t.text, "\n")
    IN  Len(lines) >= 2 /\ \A i \in 1..Len(lines) : ~InvalidListing(lines[i])

\* C8: a comparison turn whose N >= 2 lines are all valid makes one analysis
\* call per line, computes N grades, sends one text reply and one document
\* of N items, and persists 0 or N rows.
C8_ComparisonTurn ==
    \A u \in Users :
        LET t == turn[u]
            n == Len(Split(t.text, "\n"))
        IN  (t.phase = "done" /\ t.mode = "comparison" /\ AllValid(t)) =>
                /\ t.calls = n
                /\ Len(t.grades) = n
                /\ t.replies = <<[kind |-> "comparison_report", items |-> n],
                                 [kind |-> "document", items |-> n]>>
                /\ t.saved \in {0, n}

\* C9: every text turn leaves the user with neither flag set, and analysis,
\* storage and rendering happen only in a turn that started with a flag set.
C9_TurnLeavesIdle ==
    \A u \in Users :
        turn[u].phase = "done" =>
            /\ turn[u].left = {}
            /\ (turn[u].calls > 0 \/ turn[u].saves > 0 \/ turn[u].pdfs # <<>>) =>
                   turn[u].started # {}

====
